---- MODULE Spec2Model ----
(***************************************************************************)
(* Model of gv_daemon.py: the SideWinder Game Voice daemon.  One status    *)
(* byte is read from a hidraw node; bits that flipped since the previous   *)
(* byte become edges (decode_edges), each edge is logged, posted to        *)
(* Node-RED (emit_to_nodered) and, if bound in gvmap.yaml, dispatched      *)
(* (do_action).  main() is modelled statement by statement through pc.     *)
(***************************************************************************)
EXTENDS Integers, Sequences, FiniteSets, TLC

VARIABLES
    pc,          \* position in main(): the statement about to run
    override,    \* HIDRAW_OVERRIDE is non-empty (line 10)
    nodeExists,  \* the hidraw device node exists in /dev
    mapFile,     \* shape/content of gvmap.yaml as yaml.safe_load returns it
    ui,          \* the UInput handle: "unopened" | "open" | "closed"
    fd,          \* the hidraw descriptor: "unopened" | "open" | "closed"
    bindings,    \* result of load_map(): [loaded, isDict, table]
    prev,        \* main's prev (None before the first byte)
    curr,        \* main's curr (None before the first byte)
    events,      \* the list decode_edges returned for the running cycle
    idx,         \* index in events of the edge the for loop is at
    out,         \* what the running cycle printed, posted and dispatched
    uiWrites,    \* what the last do_action wrote to the UInput device
    exc,         \* the exception propagating out of main: [type, at]
    exitCode,    \* process exit status (NoExit while the process lives)
    didRead,     \* os.read(fd, 1) was called at least once
    interrupted, \* KeyboardInterrupt was delivered
    seen,        \* exit status per outcome over earlier runs (SpecRuns only)
    lastRead,    \* how the last os.read found no data ("none" once a byte came or time.sleep ran)
    sinks,       \* configuration: [nr |-> NR_ENABLED, mqtt |-> MQTT_ENABLED]
    child,       \* the last command subprocess.Popen launched: its status
    posted,      \* the payloads the running cycle handed to the sinks
    replay       \* the first byte read, toggled by every edge logged since

vars == <<pc, override, nodeExists, mapFile, ui, fd, bindings, prev, curr,
          events, idx, out, uiWrites, exc, exitCode, didRead, interrupted,
          seen,
                   lastRead, sinks, child, posted, replay>>

(***************************************************************************)
(* Bounds of the model.                                                    *)
(***************************************************************************)
\* How many of the eight buttons the modelled user operates in the poll loop.
NumButtons == 3

(***************************************************************************)
(* Program constants.                                                      *)
(***************************************************************************)
BIT_ALL  == 1
BIT_TEAM == 2
BIT_CH1  == 4
BIT_CH2  == 8
BIT_CH3  == 16
BIT_CH4  == 32
BIT_CMD  == 64
BIT_MUTE == 128

BIT_NAMES ==
    [b \in {BIT_ALL, BIT_TEAM, BIT_CH1, BIT_CH2, BIT_CH3, BIT_CH4, BIT_CMD, BIT_MUTE} |->
        CASE b = BIT_ALL  -> "all"
          [] b = BIT_TEAM -> "team"
          [] b = BIT_CH1  -> "chan1"
          [] b = BIT_CH2  -> "chan2"
          [] b = BIT_CH3  -> "chan3"
          [] b = BIT_CH4  -> "chan4"
          [] b = BIT_CMD  -> "command"
          [] b = BIT_MUTE -> "mute"]

PRINT_ORDER == <<BIT_MUTE, BIT_CMD, BIT_ALL, BIT_TEAM, BIT_CH1, BIT_CH2, BIT_CH3, BIT_CH4>>

\* Insertion order of the BIT_NAMES dict, the order BIT_NAMES.items() yields.
BIT_NAMES_ITEMS == <<BIT_ALL, BIT_TEAM, BIT_CH1, BIT_CH2, BIT_CH3, BIT_CH4, BIT_CMD, BIT_MUTE>>

\* os.read(fd, 1) yields one byte: data[0] is in 0..255.
ByteMax == 255
Byte == 0..ByteMax

\* Python's None for prev / curr.
None == -1

\* Exit statuses: sys.exit(3); an uncaught exception; an uncaught
\* KeyboardInterrupt; main() returning.
EXIT_NO_NODE  == 3
EXIT_UNCAUGHT == 1
EXIT_SIGINT   == 130
EXIT_OK       == 0
NoExit        == -1

(***************************************************************************)
(* Bit operations on bytes.                                                *)
(***************************************************************************)
\* mask & bit, for a single-bit value bit, as a truth value.
BitAnd(mask, bit) == (mask \div bit) % 2 = 1

\* prev_mask ^ curr_mask on bytes.
Xor(a, b) ==
    LET X[i \in 0..8] ==
            IF i = 0 THEN 0
            ELSE X[i-1] + (2^(i-1)) * (((a \div (2^(i-1))) + (b \div (2^(i-1)))) % 2)
    IN X[8]

(***************************************************************************)
(* decode_edges (lines 82-92) and its sibling decode_edges0 (lines 94-108). *)
(* An event is the tuple <<name, bit, edge>> the code appends.             *)
(***************************************************************************)
EdgeOf(curr_mask, bit) == IF BitAnd(curr_mask, bit) THEN "on" ELSE "off"

EventOf(curr_mask, bit) ==
    <<BIT_NAMES[bit] \o "_" \o EdgeOf(curr_mask, bit), bit, EdgeOf(curr_mask, bit)>>

\* The loop of decode_edges over an iteration order.
EdgesIn(order, prev_mask, curr_mask) ==
    LET changed == Xor(prev_mask, curr_mask)
        Ev[i \in 0..Len(order)] ==
            IF i = 0 THEN <<>>
            ELSE IF BitAnd(changed, order[i])
                 THEN Append(Ev[i-1], EventOf(curr_mask, order[i]))
                 ELSE Ev[i-1]
    IN Ev[Len(order)]

\* Mutant: the direction is read from the old mask (arguments swapped).
decode_edges_swapped(prev_mask, curr_mask) == EdgesIn(PRINT_ORDER, curr_mask, prev_mask)

\* Mutant: iterate BIT_NAMES.items() as decode_edges0 does (bit-value order).
decode_edges_items(prev_mask, curr_mask) == EdgesIn(BIT_NAMES_ITEMS, prev_mask, curr_mask)

decode_edges(prev_mask, curr_mask) == EdgesIn(PRINT_ORDER, prev_mask, curr_mask)

\* active_set (lines 110-116): names of the set bits, in PRINT_ORDER.
active_set(mask) ==
    LET Nm[i \in 0..Len(PRINT_ORDER)] ==
            IF i = 0 THEN <<>>
            ELSE IF BitAnd(mask, PRINT_ORDER[i])
                 THEN Append(Nm[i-1], BIT_NAMES[PRINT_ORDER[i]])
                 ELSE Nm[i-1]
    IN Nm[Len(PRINT_ORDER)]

(***************************************************************************)
(* The mapping file.  An ActionSpec is the dict bindings.get(ev_name)      *)
(* returns; present = FALSE stands for None (no entry for the event).      *)
(***************************************************************************)
\* Key names evdev's ecodes exports, as far as the modelled files use them.
KEYCODES == {"KEY_LEFTCTRL", "KEY_LEFTSHIFT", "KEY_M"}

ActionSpec(present, hasType, type, hasKeys, keys, hasCmd, cmd) ==
    [present |-> present, hasType |-> hasType, type |-> type,
     hasKeys |-> hasKeys, keys |-> keys, hasCmd |-> hasCmd, cmd |-> cmd]

Unbound      == ActionSpec(FALSE, FALSE, "", FALSE, <<>>, FALSE, "")
EmptySpec    == ActionSpec(TRUE, FALSE, "", FALSE, <<>>, FALSE, "")
KeySpec      == ActionSpec(TRUE, TRUE, "key", TRUE, <<"KEY_LEFTCTRL", "KEY_M">>, FALSE, "")
KeyNoType    == ActionSpec(TRUE, FALSE, "", TRUE, <<"KEY_LEFTSHIFT", "KEY_M">>, FALSE, "")
KeyBadName   == ActionSpec(TRUE, TRUE, "key", TRUE, <<"KEY_LEFTCTRL", "KEY_NOSUCH">>, FALSE, "")
KeyNoKeys    == ActionSpec(TRUE, TRUE, "key", FALSE, <<>>, FALSE, "")
ShellSpec    == ActionSpec(TRUE, TRUE, "shell", FALSE, <<>>, TRUE, "notify-send gv")
ShellNoCmd   == ActionSpec(TRUE, TRUE, "shell", FALSE, <<>>, FALSE, "")
UnknownKind  == ActionSpec(TRUE, TRUE, "macro", FALSE, <<>>, FALSE, "")

\* The ActionSpecs a modelled mapping file may hold.
SpecPool == {Unbound, EmptySpec, KeySpec, KeyNoType, KeyBadName, KeyNoKeys,
             ShellSpec, ShellNoCmd, UnknownKind}

\* The buttons the modelled user operates, and the bytes the device reports.
DeviceButtons == <<BIT_MUTE, BIT_ALL, BIT_CH1, BIT_CH4, BIT_CMD, BIT_TEAM, BIT_CH2, BIT_CH3>>
DeviceBits  == {DeviceButtons[i] : i \in 1..NumButtons}
DeviceBytes == {b \in Byte : \A bit \in DOMAIN BIT_NAMES : BitAnd(b, bit) => bit \in DeviceBits}

EventNames == {BIT_NAMES[b] \o "_" \o e : b \in DOMAIN BIT_NAMES, e \in {"on", "off"}}

\* The 'bindings' tables of the modelled files: mute_on and all_on are bound
\* to any spec of the pool, every other event is unbound.
Table(s, t) ==
    [e \in EventNames |-> IF e = "mute_on" THEN s ELSE IF e = "all_on" THEN t ELSE Unbound]

\* What yaml.safe_load may return: not a dict; a dict without 'bindings';
\* a dict whose 'bindings' is null; a dict whose 'bindings' is a table.
YamlDoc(isDict, hasBindings, isTable, table) ==
    [isDict |-> isDict, hasBindings |-> hasBindings, isTable |-> isTable, table |-> table]

MapFiles ==
    {YamlDoc(FALSE, FALSE, FALSE, Table(Unbound, Unbound)),
     YamlDoc(TRUE, FALSE, FALSE, Table(Unbound, Unbound)),
     YamlDoc(TRUE, TRUE, FALSE, Table(Unbound, Unbound))}
    \cup {YamlDoc(TRUE, TRUE, TRUE, Table(s, t)) : s \in SpecPool, t \in {Unbound, KeySpec, ShellSpec, KeyBadName}}

\* Mutant: only the isinstance test, the 'bindings' key is not looked for.
load_map_noKeyCheck(data) ==
    IF ~data.isDict
    THEN [raised |-> "ValueError", loaded |-> FALSE, isTable |-> FALSE, table |-> data.table]
    ELSE [raised |-> "none", loaded |-> TRUE, isTable |-> data.isTable, table |-> data.table]

\* load_map (lines 62-67): [raised, value]; value is data["bindings"].
load_map(data) ==
    IF ~data.isDict \/ ~data.hasBindings
    THEN [raised |-> "ValueError", loaded |-> FALSE, isTable |-> FALSE, table |-> data.table]
    ELSE [raised |-> "none", loaded |-> TRUE, isTable |-> data.isTable, table |-> data.table]

NotLoaded == [loaded |-> FALSE, isTable |-> FALSE, table |-> Table(Unbound, Unbound)]

(***************************************************************************)
(* press_combo (lines 69-72) and do_action (lines 74-79).  Both return     *)
(* [raised, writes]: the exception that leaves the call ("none" if none)   *)
(* and the events written to the UInput device before it.  sinkFails is    *)
(* the environment: ui.write / subprocess.Popen fails with OSError.        *)
(***************************************************************************)
Reverse(s) == [i \in 1..Len(s) |-> s[Len(s) + 1 - i]]

press_combo(keys, sinkFails) ==
    LET bad == {i \in 1..Len(keys) : keys[i] \notin KEYCODES}
        firstBad == IF bad = {} THEN Len(keys) + 1
                    ELSE CHOOSE i \in bad : \A j \in bad : i <= j
        down == [i \in 1..(firstBad - 1) |-> <<"EV_KEY", keys[i], 1>>]
        up   == [i \in 1..Len(keys) |-> <<"EV_KEY", Reverse(keys)[i], 0>>]
    IN IF sinkFails /\ Len(keys) > 0 /\ firstBad > 1
       THEN [raised |-> "OSError", writes |-> <<>>]
       ELSE IF bad # {}
       THEN [raised |-> "KeyError", writes |-> down]
       ELSE [raised |-> "none", writes |-> down \o up \o <<<<"EV_SYN", "SYN_REPORT", 0>>>>]

do_action(spec, sinkFails) ==
    LET t == IF spec.hasType THEN spec.type ELSE "key"
        Res(raised, writes, launched) ==
            [raised |-> raised, writes |-> writes, launched |-> launched]
    IN IF t = "key"
       THEN IF ~spec.hasKeys THEN Res("KeyError", <<>>, FALSE)
            ELSE LET p == press_combo(spec.keys, sinkFails)
                 IN Res(p.raised, p.writes, FALSE)
       ELSE IF t = "shell"
       THEN IF ~spec.hasCmd THEN Res("KeyError", <<>>, FALSE)
            ELSE IF sinkFails THEN Res("OSError", <<>>, FALSE)
            ELSE Res("none", <<>>, TRUE)
       ELSE Res("none", <<>>, FALSE)

\* Truth value of a spec in "if spec:" (line 253): None and {} are falsy.
Truthy(spec) == spec.present /\ (spec.hasType \/ spec.hasKeys \/ spec.hasCmd)

(***************************************************************************)
(* emit_to_nodered (lines 166-192): the records it hands to the HTTP sink. *)
(* postOk is the environment: the POST (or the curl spawn) succeeded; a    *)
(* failure is caught inside the function and only printed.                 *)
(***************************************************************************)
NR_ENABLED == TRUE
MQTT_ENABLED == FALSE

OutRec(kind, event, mask, ok) == [kind |-> kind, event |-> event, mask |-> mask, ok |-> ok]

\* Mutant: a failed POST is tried a second time.
emit_to_nodered_retry(event_name, edge, mask, postOk) ==
    IF ~sinks.nr THEN <<>>
    ELSE IF postOk THEN <<OutRec("notify", event_name, mask, TRUE)>>
    ELSE <<OutRec("notify", event_name, mask, FALSE), OutRec("notify", event_name, mask, TRUE)>>

emit_to_nodered(event_name, edge, mask, postOk) ==
    IF ~sinks.nr THEN <<>>
    ELSE <<OutRec("notify", event_name, mask, postOk)>>

\* f"{mask:02x}" (line 172).
HexDigits == <<"0", "1", "2", "3", "4", "5", "6", "7", "8", "9", "a", "b", "c", "d", "e", "f">>
Hex2(mask) ==
    IF mask < 16 THEN "0" \o HexDigits[mask + 1]
    ELSE HexDigits[(mask \div 16) + 1] \o HexDigits[(mask % 16) + 1]

\* The payload emit_to_nodered builds (lines 169-176), without its
\* timestamp; nothing when the sink is disabled.
nodered_payload(event_name, edge, mask) ==
    IF ~sinks.nr THEN <<>>
    ELSE <<[event |-> event_name, edge |-> edge, mask_hex |-> Hex2(mask),
            mask_int |-> mask, active |-> active_set(mask)]>>

\* emit_mqtt (lines 194-201): the record it hands to mosquitto_pub.  main
\* does not call it: the call at line 249 is commented out.
emit_mqtt(event_name, mask, spawnOk) ==
    IF ~sinks.mqtt THEN <<>>
    ELSE <<OutRec("mqtt", event_name, mask, spawnOk)>>

(***************************************************************************)
(* main (lines 206-266).                                                   *)
(***************************************************************************)
InitPcs == {"locate", "open_ui", "open_fd", "load_map"}
LoopPcs == {"read", "log", "notify", "dispatch", "set_prev", "sleep"}

NoExc == [type |-> "none", at |-> "none"]

Outcomes == {"device_not_found", "config_invalid", "clean_interrupt"}

\* The state main() starts in, for a given configuration and environment.
Start(ov, ne, mf) ==
    /\ pc = "locate"
    /\ override = ov
    /\ nodeExists = ne
    /\ mapFile = mf
    /\ ui = "unopened"
    /\ fd = "unopened"
    /\ bindings = NotLoaded
    /\ prev = None
    /\ curr = None
    /\ events = <<>>
    /\ idx = 0
    /\ out = <<>>
    /\ uiWrites = <<>>
    /\ exc = NoExc
    /\ exitCode = NoExit
    /\ didRead = FALSE
    /\ interrupted = FALSE
    /\ lastRead = "none"
    /\ child = "none"
    /\ posted = <<>>
    /\ replay = None

Init ==
    /\ \E ov \in BOOLEAN, ne \in BOOLEAN, mf \in MapFiles : Start(ov, ne, mf)
    /\ seen = [o \in Outcomes |-> NoExit]
    /\ sinks = [nr |-> NR_ENABLED, mqtt |-> MQTT_ENABLED]

\* Exit status of an exception nothing catches.
UncaughtStatus(type) == IF type = "KeyboardInterrupt" THEN EXIT_SIGINT ELSE EXIT_UNCAUGHT

\* An exception raised outside main's try statement: the process ends at once.
Uncaught(type, at) ==
    /\ exc' = [type |-> type, at |-> at]
    /\ pc' = "stopped"
    /\ exitCode' = UncaughtStatus(type)

\* An exception raised inside the try that no except clause matches: the
\* finally clause runs, then the exception ends the process.
Propagate(type, at) ==
    /\ exc' = [type |-> type, at |-> at]
    /\ pc' = "finally"

\* Line 209: HIDRAW_OVERRIDE or find_hidraw_by_vidpid(VID_HEX, PID_HEX, true).
\* With the override empty the argument list is evaluated and the name
\* 'true' is not defined.
LocateNode ==
    IF override THEN [raised |-> "none", node |-> TRUE]
    ELSE [raised |-> "NameError", node |-> FALSE]

\* Lines 209-213.
Locate ==
    /\ pc = "locate"
    /\ LET r == LocateNode
       IN IF r.raised # "none" THEN Uncaught(r.raised, "locate")
          ELSE IF ~r.node
          THEN /\ pc' = "stopped"
               /\ exitCode' = EXIT_NO_NODE
               /\ exc' = [type |-> "SystemExit", at |-> "locate"]
          ELSE /\ pc' = "open_ui"
               /\ UNCHANGED <<exc, exitCode>>
    /\ UNCHANGED <<override, nodeExists, mapFile, ui, fd, bindings, prev, curr,
                   events, idx, out, uiWrites, didRead, interrupted, seen,
                   lastRead, sinks, child, posted, replay>>

\* Line 216: ui = UInput().
OpenUI ==
    /\ pc = "open_ui"
    /\ \E ok \in BOOLEAN :
          IF ok THEN /\ ui' = "open"
                     /\ pc' = "open_fd"
                     /\ UNCHANGED <<exc, exitCode>>
          ELSE /\ Uncaught("UInputError", "open_ui")
               /\ UNCHANGED ui
    /\ UNCHANGED <<override, nodeExists, mapFile, fd, bindings, prev, curr,
                   events, idx, out, uiWrites, didRead, interrupted, seen,
                   lastRead, sinks, child, posted, replay>>

\* Line 219: fd = os.open(node, os.O_RDONLY | os.O_NONBLOCK).
OpenFd ==
    /\ pc = "open_fd"
    /\ IF nodeExists
       THEN /\ fd' = "open"
            /\ pc' = "load_map"
            /\ UNCHANGED <<exc, exitCode>>
       ELSE /\ Uncaught("FileNotFoundError", "open_fd")
            /\ UNCHANGED fd
    /\ UNCHANGED <<override, nodeExists, mapFile, ui, bindings, prev, curr,
                   events, idx, out, uiWrites, didRead, interrupted, seen,
                   lastRead, sinks, child, posted, replay>>

\* Lines 222-225: bindings = load_map(); prev = None.
LoadMap ==
    /\ pc = "load_map"
    /\ LET r == load_map(mapFile)
       IN IF r.raised # "none"
          THEN /\ Uncaught(r.raised, "load_map")
               /\ UNCHANGED <<bindings, prev>>
          ELSE /\ bindings' = [loaded |-> r.loaded, isTable |-> r.isTable, table |-> r.table]
               /\ prev' = None
               /\ pc' = "read"
               /\ UNCHANGED <<exc, exitCode>>
    /\ UNCHANGED <<override, nodeExists, mapFile, ui, fd, curr,
                   events, idx, out, uiWrites, didRead, interrupted, seen,
                   lastRead, sinks, child, posted, replay>>

\* Ctrl+C before the try statement of line 226 is entered.
InterruptInit ==
    /\ pc \in InitPcs
    /\ ~interrupted
    /\ interrupted' = TRUE
    /\ Uncaught("KeyboardInterrupt", pc)
    /\ UNCHANGED <<override, nodeExists, mapFile, ui, fd, bindings, prev, curr,
                   events, idx, out, uiWrites, didRead, seen,
                   lastRead, sinks, child, posted, replay>>

\* The edge the for loop of line 244 is at.
Edge == events[idx]

\* Leaving the body of the for loop: the next edge, or line 256.
NextEdge ==
    /\ idx' = idx + 1
    /\ pc' = IF idx < Len(events) THEN "log" ELSE "set_prev"

\* Mutant: no data is taken for a lost device, and the baseline is dropped.
ReadBlocked_rebaseline ==
    /\ pc = "read"
    /\ didRead' = TRUE
    /\ pc' = "sleep"
    /\ lastRead' = "blocked"
    /\ prev' = None
    /\ UNCHANGED <<override, nodeExists, mapFile, ui, fd, bindings, curr,
                   events, idx, out, uiWrites, exc, exitCode, interrupted, seen,
                   sinks, child, posted, replay>>

\* Line 229 raises BlockingIOError: caught at line 258, then line 260.
ReadBlocked ==
    /\ pc = "read"
    /\ didRead' = TRUE
    /\ pc' = "sleep"
    /\ lastRead' = "blocked"
    /\ UNCHANGED <<override, nodeExists, mapFile, ui, fd, bindings, prev, curr,
                   events, idx, out, uiWrites, exc, exitCode, interrupted, seen,
                   sinks, child, posted, replay>>

\* Lines 229-231: os.read returns b'': continue.
ReadEmpty ==
    /\ pc = "read"
    /\ didRead' = TRUE
    /\ pc' = "read"
    /\ lastRead' = "empty"
    /\ UNCHANGED <<override, nodeExists, mapFile, ui, fd, bindings, prev, curr,
                   events, idx, out, uiWrites, exc, exitCode, interrupted, seen,
                   sinks, child, posted, replay>>

\* Line 229 raises another OSError (the device went away): nothing catches it.
ReadError ==
    /\ pc = "read"
    /\ didRead' = TRUE
    /\ Propagate("OSError", "read")
    /\ lastRead' = "none"
    /\ UNCHANGED <<override, nodeExists, mapFile, ui, fd, bindings, prev, curr,
                   events, idx, out, uiWrites, exitCode, interrupted, seen,
                   sinks, child, posted, replay>>

\* Mutant: no baseline, the first byte is decoded against an all-clear mask.
ReadBaseline_fromZero ==
    /\ pc = "read"
    /\ prev = None
    /\ \E b \in DeviceBytes :
          /\ curr' = b
          /\ replay' = 0
          /\ events' = decode_edges(0, b)
          /\ idx' = 1
          /\ pc' = IF decode_edges(0, b) = <<>> THEN "set_prev" ELSE "log"
    /\ out' = <<>>
    /\ didRead' = TRUE
    /\ lastRead' = "none"
    /\ posted' = <<>>
    /\ UNCHANGED <<override, nodeExists, mapFile, ui, fd, bindings, prev,
                   uiWrites, exc, exitCode, interrupted, seen,
                   sinks, child>>

\* Lines 229-237: the first byte: prev = curr, the INIT line, continue.
ReadBaseline ==
    /\ pc = "read"
    /\ prev = None
    /\ \E b \in DeviceBytes :
          /\ curr' = b
          /\ prev' = b
          /\ replay' = b
          /\ out' = Append(out, OutRec("init", "", b, TRUE))
    /\ didRead' = TRUE
    /\ pc' = "read"
    /\ lastRead' = "none"
    /\ UNCHANGED <<override, nodeExists, mapFile, ui, fd, bindings,
                   events, idx, uiWrites, exc, exitCode, interrupted, seen,
                   sinks, child, posted>>

\* Lines 229-241: the byte equals prev: continue.
ReadSame ==
    /\ pc = "read"
    /\ prev # None
    /\ curr' = prev
    /\ didRead' = TRUE
    /\ pc' = "read"
    /\ lastRead' = "none"
    /\ UNCHANGED <<override, nodeExists, mapFile, ui, fd, bindings, prev,
                   events, idx, out, uiWrites, exc, exitCode, interrupted, seen,
                   sinks, child, posted, replay>>

\* Mutant: prev is overwritten as soon as the byte is read.
ReadChanged_prevFirst ==
    /\ pc = "read"
    /\ prev # None
    /\ \E b \in DeviceBytes \ {prev} :
          /\ curr' = b
          /\ prev' = b
          /\ events' = decode_edges(prev, b)
          /\ idx' = 1
          /\ pc' = IF decode_edges(prev, b) = <<>> THEN "set_prev" ELSE "log"
    /\ out' = <<>>
    /\ didRead' = TRUE
    /\ lastRead' = "none"
    /\ posted' = <<>>
    /\ UNCHANGED <<override, nodeExists, mapFile, ui, fd, bindings,
                   uiWrites, exc, exitCode, interrupted, seen,
                   sinks, child, replay>>

\* Lines 229-244: the byte differs from prev: the for loop starts on
\* decode_edges(prev, curr).
ReadChanged ==
    /\ pc = "read"
    /\ prev # None
    /\ \E b \in DeviceBytes \ {prev} :
          /\ curr' = b
          /\ events' = decode_edges(prev, b)
          /\ idx' = 1
          /\ pc' = IF decode_edges(prev, b) = <<>> THEN "set_prev" ELSE "log"
    /\ out' = <<>>
    /\ didRead' = TRUE
    /\ lastRead' = "none"
    /\ posted' = <<>>
    /\ UNCHANGED <<override, nodeExists, mapFile, ui, fd, bindings, prev,
                   uiWrites, exc, exitCode, interrupted, seen,
                   sinks, child, replay>>

\* Line 245: print the edge.
LogEdge ==
    /\ pc = "log"
    /\ out' = Append(out, OutRec("log", Edge[1], curr, TRUE))
    /\ pc' = "notify"
    /\ replay' = Xor(replay, Edge[2])
    /\ UNCHANGED <<override, nodeExists, mapFile, ui, fd, bindings, prev, curr,
                   events, idx, uiWrites, exc, exitCode, didRead, interrupted, seen,
                   lastRead, sinks, child, posted>>

\* Mutant: each edge is notified with the mask as it stands after that edge
\* alone, the later changes of the cycle not yet applied.
Notify_intermediateMask ==
    LET Acc[i \in 0..idx] == IF i = 0 THEN prev ELSE Xor(Acc[i-1], events[i][2])
    IN /\ pc = "notify"
       /\ \E postOk \in BOOLEAN :
             out' = out \o emit_to_nodered(Edge[1], Edge[3], Acc[idx], postOk)
       /\ pc' = "dispatch"
       /\ posted' = posted \o nodered_payload(Edge[1], Edge[3], Acc[idx])
       /\ UNCHANGED <<override, nodeExists, mapFile, ui, fd, bindings, prev, curr,
                      events, idx, uiWrites, exc, exitCode, didRead, interrupted, seen,
                      lastRead, sinks, child, replay>>

\* Mutant: a failed POST raises into the loop.
Notify_raises ==
    /\ pc = "notify"
    /\ \E postOk \in BOOLEAN :
          /\ out' = out \o emit_to_nodered(Edge[1], Edge[3], curr, postOk)
          /\ IF postOk \/ ~sinks.nr
             THEN pc' = "dispatch" /\ UNCHANGED exc
             ELSE Propagate("ConnectionError", "emit_to_nodered")
    /\ posted' = posted \o nodered_payload(Edge[1], Edge[3], curr)
    /\ UNCHANGED <<override, nodeExists, mapFile, ui, fd, bindings, prev, curr,
                   events, idx, uiWrites, exitCode, didRead, interrupted, seen,
                   lastRead, sinks, child, replay>>

\* Line 248: emit_to_nodered(ev_name, edge, curr).
Notify ==
    /\ pc = "notify"
    /\ \E postOk \in BOOLEAN :
          out' = out \o emit_to_nodered(Edge[1], Edge[3], curr, postOk)
    /\ pc' = "dispatch"
    /\ posted' = posted \o nodered_payload(Edge[1], Edge[3], curr)
    /\ UNCHANGED <<override, nodeExists, mapFile, ui, fd, bindings, prev, curr,
                   events, idx, uiWrites, exc, exitCode, didRead, interrupted, seen,
                   lastRead, sinks, child, replay>>

\* Mutant: the command is run to completion before the loop goes on.
Dispatch_wait ==
    /\ pc = "dispatch"
    /\ IF ~bindings.isTable
       THEN /\ Propagate("AttributeError", "bindings.get")
            /\ UNCHANGED <<idx, out, uiWrites, child>>
       ELSE LET spec == bindings.table[Edge[1]]
            IN IF ~Truthy(spec)
               THEN /\ NextEdge
                    /\ UNCHANGED <<out, uiWrites, exc, child>>
               ELSE \E sinkFails \in BOOLEAN :
                       LET r == do_action(spec, sinkFails)
                       IN /\ uiWrites' = r.writes
                          /\ child' \in IF r.launched THEN {"ok", "failed"} ELSE {child}
                          /\ out' = Append(out, OutRec("dispatch", Edge[1], curr, r.raised = "none"))
                          /\ IF r.raised # "none"
                             THEN /\ Propagate(r.raised, "do_action")
                                  /\ UNCHANGED idx
                             ELSE /\ NextEdge
                                  /\ UNCHANGED exc
    /\ UNCHANGED <<override, nodeExists, mapFile, ui, fd, bindings, prev, curr,
                   events, exitCode, didRead, interrupted, seen,
                   lastRead, sinks, posted, replay>>

\* Lines 252-254: spec = bindings.get(ev_name); if spec: do_action(ui, spec).
Dispatch ==
    /\ pc = "dispatch"
    /\ IF ~bindings.isTable
       THEN /\ Propagate("AttributeError", "bindings.get")
            /\ UNCHANGED <<idx, out, uiWrites, child>>
       ELSE LET spec == bindings.table[Edge[1]]
            IN IF ~Truthy(spec)
               THEN /\ NextEdge
                    /\ UNCHANGED <<out, uiWrites, exc, child>>
               ELSE \E sinkFails \in BOOLEAN :
                       LET r == do_action(spec, sinkFails)
                       IN /\ uiWrites' = r.writes
                          /\ child' = IF r.launched THEN "running" ELSE child
                          /\ out' = Append(out, OutRec("dispatch", Edge[1], curr, r.raised = "none"))
                          /\ IF r.raised # "none"
                             THEN /\ Propagate(r.raised, "do_action")
                                  /\ UNCHANGED idx
                             ELSE /\ NextEdge
                                  /\ UNCHANGED exc
    /\ UNCHANGED <<override, nodeExists, mapFile, ui, fd, bindings, prev, curr,
                   events, exitCode, didRead, interrupted, seen,
                   lastRead, sinks, posted, replay>>

\* Mutant: the cycle ends without storing the byte read.
SetPrev_stale ==
    /\ pc = "set_prev"
    /\ prev' = prev
    /\ pc' = "sleep"
    /\ UNCHANGED <<override, nodeExists, mapFile, ui, fd, bindings, curr,
                   events, idx, out, uiWrites, exc, exitCode, didRead, interrupted, seen,
                   lastRead, sinks, child, posted, replay>>

\* Line 256: prev = curr.
SetPrev ==
    /\ pc = "set_prev"
    /\ prev' = curr
    /\ pc' = "sleep"
    /\ UNCHANGED <<override, nodeExists, mapFile, ui, fd, bindings, curr,
                   events, idx, out, uiWrites, exc, exitCode, didRead, interrupted, seen,
                   lastRead, sinks, child, posted, replay>>

\* Line 260: time.sleep(0.003).
Sleep ==
    /\ pc = "sleep"
    /\ pc' = "read"
    /\ lastRead' = "none"
    /\ UNCHANGED <<override, nodeExists, mapFile, ui, fd, bindings, prev, curr,
                   events, idx, out, uiWrites, exc, exitCode, didRead, interrupted, seen,
                   sinks, child, posted, replay>>

\* Mutant: the KeyboardInterrupt is not caught by lines 261-262.
InterruptLoop_reraise ==
    /\ pc \in LoopPcs
    /\ ~interrupted
    /\ interrupted' = TRUE
    /\ Propagate("KeyboardInterrupt", pc)
    /\ UNCHANGED <<override, nodeExists, mapFile, ui, fd, bindings, prev, curr,
                   events, idx, out, uiWrites, exitCode, didRead, seen,
                   lastRead, sinks, child, posted, replay>>

\* Ctrl+C inside the try statement: lines 261-262 catch KeyboardInterrupt.
InterruptLoop ==
    /\ pc \in LoopPcs
    /\ ~interrupted
    /\ interrupted' = TRUE
    /\ pc' = "finally"
    /\ UNCHANGED <<override, nodeExists, mapFile, ui, fd, bindings, prev, curr,
                   events, idx, out, uiWrites, exc, exitCode, didRead, seen,
                   lastRead, sinks, child, posted, replay>>

\* Lines 264-266: ui.close(); os.close(fd); then main returns, or the
\* exception that was propagating ends the process.
Finally ==
    /\ pc = "finally"
    /\ ui' = "closed"
    /\ fd' = "closed"
    /\ pc' = "stopped"
    /\ exitCode' = IF exc.type = "none" THEN EXIT_OK ELSE UncaughtStatus(exc.type)
    /\ UNCHANGED <<override, nodeExists, mapFile, bindings, prev, curr,
                   events, idx, out, uiWrites, exc, didRead, interrupted, seen,
                   lastRead, sinks, child, posted, replay>>

Next ==
    \/ Locate
    \/ OpenUI
    \/ OpenFd
    \/ LoadMap
    \/ InterruptInit
    \/ ReadBlocked
    \/ ReadEmpty
    \/ ReadError
    \/ ReadBaseline
    \/ ReadSame
    \/ ReadChanged
    \/ LogEdge
    \/ Notify
    \/ Dispatch
    \/ SetPrev
    \/ Sleep
    \/ InterruptLoop
    \/ Finally

Spec == Init /\ [][Next]_vars

\* main under every setting of NR_ENABLED and MQTT_ENABLED.
InitSinks ==
    /\ \E ov \in BOOLEAN, ne \in BOOLEAN, mf \in MapFiles : Start(ov, ne, mf)
    /\ seen = [o \in Outcomes |-> NoExit]
    /\ sinks \in [nr : BOOLEAN, mqtt : BOOLEAN]

SpecSinks == InitSinks /\ [][Next]_vars

\* main with the control flow of Python as fairness: once the finally
\* clause is reached, it runs.  Three gvmap.yaml files stand for the rest.
LiveMapFiles ==
    {YamlDoc(TRUE, FALSE, FALSE, Table(Unbound, Unbound)),
     YamlDoc(TRUE, TRUE, TRUE, Table(KeySpec, ShellSpec)),
     YamlDoc(TRUE, TRUE, TRUE, Table(KeyBadName, Unbound))}

InitLive ==
    /\ \E ov \in BOOLEAN, ne \in BOOLEAN, mf \in LiveMapFiles : Start(ov, ne, mf)
    /\ seen = [o \in Outcomes |-> NoExit]
    /\ sinks = [nr |-> NR_ENABLED, mqtt |-> MQTT_ENABLED]

SpecLive == InitLive /\ [][Next]_vars /\ WF_vars(Finally)

\* A child started by subprocess.Popen (line 79) ends on its own, with
\* status zero or not; nothing in the daemon waits for it or reads its
\* status.
ChildExit ==
    /\ child = "running"
    /\ child' \in {"ok", "failed"}
    /\ UNCHANGED <<pc, override, nodeExists, mapFile, ui, fd, bindings, prev, curr,
                   events, idx, out, uiWrites, exc, exitCode, didRead, interrupted, seen,
                   lastRead, sinks, posted, replay>>

ShellMapFiles ==
    {YamlDoc(TRUE, TRUE, TRUE, Table(ShellSpec, Unbound)),
     YamlDoc(TRUE, TRUE, TRUE, Table(ShellSpec, ShellSpec)),
     YamlDoc(TRUE, TRUE, TRUE, Table(KeySpec, ShellSpec))}

InitChild ==
    /\ \E ov \in BOOLEAN, ne \in BOOLEAN, mf \in ShellMapFiles : Start(ov, ne, mf)
    /\ seen = [o \in Outcomes |-> NoExit]
    /\ sinks = [nr |-> NR_ENABLED, mqtt |-> MQTT_ENABLED]

NextChild == Next \/ ChildExit

SpecChild == InitChild /\ [][NextChild]_vars

(***************************************************************************)
(* Several runs of the program, to compare the exit statuses of different  *)
(* outcomes: once stopped, main is started again, under the same           *)
(* HIDRAW_OVERRIDE.  seen keeps the exit status each outcome produced.     *)
(***************************************************************************)
Outcome ==
    IF exc.type = "ValueError" /\ exc.at = "load_map" THEN "config_invalid"
    ELSE IF ~nodeExists /\ exc.at \in {"locate", "open_fd"} /\ exc.type # "KeyboardInterrupt"
    THEN "device_not_found"
    ELSE IF interrupted /\ exc.type = "none" THEN "clean_interrupt"
    ELSE "other"

Restart ==
    /\ pc = "stopped"
    /\ seen' = IF Outcome \in Outcomes THEN [seen EXCEPT ![Outcome] = exitCode] ELSE seen
    /\ pc' = "locate"
    /\ ui' = "unopened"
    /\ fd' = "unopened"
    /\ bindings' = NotLoaded
    /\ prev' = None
    /\ curr' = None
    /\ events' = <<>>
    /\ idx' = 0
    /\ out' = <<>>
    /\ uiWrites' = <<>>
    /\ exc' = NoExc
    /\ exitCode' = NoExit
    /\ didRead' = FALSE
    /\ interrupted' = FALSE
    /\ lastRead' = "none"
    /\ child' = "none"
    /\ posted' = <<>>
    /\ replay' = None
    /\ UNCHANGED <<override, nodeExists, mapFile, sinks>>

\* Before a run starts, the device may be plugged or unplugged and the
\* mapping file edited.
Reconfigure ==
    /\ pc = "locate"
    /\ nodeExists' \in BOOLEAN
    /\ mapFile' \in MapFiles
    /\ UNCHANGED <<pc, override, ui, fd, bindings, prev, curr, events, idx, out,
                   uiWrites, exc, exitCode, didRead, interrupted, seen,
                   lastRead, sinks, child, posted, replay>>

NextRuns == Next \/ Restart \/ Reconfigure

SpecRuns == Init /\ [][NextRuns]_vars

(***************************************************************************)
(* decode_edges on its own: every pair of bytes, then one application.     *)
(***************************************************************************)
InitEdges ==
    /\ pc = "decode_edges"
    /\ prev \in Byte
    /\ curr \in Byte
    /\ override = TRUE
    /\ nodeExists = TRUE
    /\ mapFile = YamlDoc(TRUE, TRUE, TRUE, Table(Unbound, Unbound))
    /\ ui = "unopened"
    /\ fd = "unopened"
    /\ bindings = NotLoaded
    /\ events = <<>>
    /\ idx = 0
    /\ out = <<>>
    /\ uiWrites = <<>>
    /\ exc = NoExc
    /\ exitCode = NoExit
    /\ didRead = FALSE
    /\ interrupted = FALSE
    /\ seen = [o \in Outcomes |-> NoExit]
    /\ lastRead = "none"
    /\ sinks = [nr |-> NR_ENABLED, mqtt |-> MQTT_ENABLED]
    /\ child = "none"
    /\ posted = <<>>
    /\ replay = None

ApplyDecode ==
    /\ pc = "decode_edges"
    /\ events' = decode_edges(prev, curr)
    /\ pc' = "decoded"
    /\ UNCHANGED <<override, nodeExists, mapFile, ui, fd, bindings, prev, curr,
                   idx, out, uiWrites, exc, exitCode, didRead, interrupted, seen,
                   lastRead, sinks, child, posted, replay>>

SpecEdges == InitEdges /\ [][ApplyDecode]_vars

(***************************************************************************)
(* Properties of decode_edges.                                             *)
(***************************************************************************)
Bits == DOMAIN BIT_NAMES

\* The bit differs between the two masks, read off the masks' binary digits.
Differs(p, c, bit) == ((p \div bit) % 2) # ((c \div bit) % 2)

\* C1: for p # c, decode_edges(p, c) holds exactly one edge for each bit
\* where p and c differ and none for a bit where they agree; the edge of a
\* bit is <flag>_on / "on" if the bit is set in c, else <flag>_off / "off".
C1_OneEdgePerChangedBit ==
    (pc = "decoded" /\ prev # curr) =>
        /\ \A bit \in Bits :
              Cardinality({i \in 1..Len(events) : events[i][2] = bit})
                 = IF Differs(prev, curr, bit) THEN 1 ELSE 0
        /\ \A i \in 1..Len(events) :
              /\ events[i][2] \in Bits
              /\ events[i][3] = IF (curr \div events[i][2]) % 2 = 1 THEN "on" ELSE "off"
              /\ events[i][1] = BIT_NAMES[events[i][2]] \o "_" \o events[i][3]

\* Four bits change at once, two switching on and two off.
C1_Witness ==
    /\ pc = "decoded"
    /\ prev = 132
    /\ curr = 33
    /\ Len(events) = 4
    /\ \E i, j \in 1..Len(events) : events[i][3] = "on" /\ events[j][3] = "off"

\* The fixed priority sequence of flag names.
PriorityNames == <<"mute", "command", "all", "team", "chan1", "chan2", "chan3", "chan4">>
Rank(name) == CHOOSE k \in 1..Len(PriorityNames) : PriorityNames[k] = name

\* C2: for p # c the edges are ordered by the priority sequence mute,
\* command, all, team, chan1, chan2, chan3, chan4, not by bit value;
\* 0x00 -> 0x81 yields exactly mute_on then all_on.
C2_PriorityOrder ==
    (pc = "decoded" /\ prev # curr) =>
        /\ \A i, j \in 1..Len(events) :
              i < j => Rank(BIT_NAMES[events[i][2]]) < Rank(BIT_NAMES[events[j][2]])
        /\ (prev = 0 /\ curr = 129) =>
              events = << <<"mute_on", BIT_MUTE, "on">>, <<"all_on", BIT_ALL, "on">> >>

\* Scenario C: 0x00 -> 0x81 decoded into two edges.
C2_Witness ==
    /\ pc = "decoded"
    /\ prev = 0
    /\ curr = 129
    /\ Len(events) = 2
    /\ events[1][1] = "mute_on"

(***************************************************************************)
(* Properties of main.                                                     *)
(***************************************************************************)
\* The running cycle has printed, posted and dispatched nothing for an edge.
NoEdgeOutput == \A i \in 1..Len(out) : out[i].kind = "init"

\* C3: the first successful read is baseline only: whatever the byte, no
\* edge is decoded, nothing is posted or dispatched, and prev becomes
\* exactly that byte.
C3_FirstReadIsBaseline ==
    /\ [](prev = None => (events = <<>> /\ NoEdgeOutput /\ uiWrites = <<>>))
    /\ [][(prev = None /\ prev' # None) =>
             /\ curr' \in Byte
             /\ prev' = curr'
             /\ events' = <<>>
             /\ NoEdgeOutput'
             /\ uiWrites' = <<>>
             /\ pc' = "read"]_vars

\* The first byte already has mute and all active.
C3_Witness ==
    /\ pc = "read"
    /\ prev = 129
    /\ curr = 129
    /\ events = <<>>
    /\ out = <<OutRec("init", "", 129, TRUE)>>

\* The last thing the cycle did was a do_action call that raised.
LastDispatchFailed ==
    /\ out # <<>>
    /\ out[Len(out)].kind = "dispatch"
    /\ ~out[Len(out)].ok

\* C4: do_action never raises to the poll loop: after a failing action the
\* loop is still running (unless Ctrl+C ended it) and no exception of
\* do_action propagates out of main.
C4_DispatchNeverRaises ==
    /\ exc.at # "do_action"
    /\ (LastDispatchFailed /\ ~interrupted) => pc \in LoopPcs

\* C5: when the action of one edge of a cycle fails, the later edges of the
\* cycle are still processed and prev ends up equal to the byte read: the
\* loop never ends with a failed action and edges of the cycle left over.
C5_LaterEdgesAfterFailure ==
    (pc \in {"finally", "stopped"} /\ LastDispatchFailed /\ ~interrupted /\ Len(events) > 1) =>
        (idx > Len(events) /\ prev = curr)

\* C6: on every path that ends the process, every handle that was opened
\* has been closed.
C6_HandlesReleased ==
    pc = "stopped" => (ui # "open" /\ fd # "open")

\* C7: device not found, mapping file invalid and clean interrupt exit with
\* pairwise different statuses, and the clean interrupt with 0.
C7_ExitCodesDistinct ==
    /\ seen["clean_interrupt"] \in {NoExit, EXIT_OK}
    /\ \A a, b \in Outcomes :
          (a # b /\ seen[a] # NoExit /\ seen[b] # NoExit) => seen[a] # seen[b]

\* The mapping file is not a dict, or a dict without 'bindings'.
Malformed(data) == ~data.isDict \/ ~data.hasBindings

\* C8: with a mapping file that lacks the top-level 'bindings' key (or is
\* no mapping), main never reaches the loop: it reads no byte, decodes no
\* edge, posts and dispatches nothing, and ends with a non-zero status.
C8_MalformedMapAborts ==
    Malformed(mapFile) =>
        /\ pc \in InitPcs \cup {"stopped"}
        /\ ~didRead
        /\ events = <<>>
        /\ out = <<>>
        /\ uiWrites = <<>>
        /\ ~bindings.loaded
        /\ pc = "stopped" => exitCode \notin {EXIT_OK, NoExit}

\* load_map rejected a dict that has no 'bindings' key.
C8_Witness ==
    /\ pc = "stopped"
    /\ mapFile.isDict
    /\ ~mapFile.hasBindings
    /\ exc = [type |-> "ValueError", at |-> "load_map"]
    /\ exitCode = EXIT_UNCAUGHT
    /\ ~didRead

\* The kind do_action sees in a spec, and the kinds it knows.
KindOf(spec) == IF spec.hasType THEN spec.type ELSE "key"
KnownKinds == {"key", "shell"}

\* C9: an ActionSpec of unknown kind is a fatal startup error, so the loop
\* never resolves such a spec for an edge.
C9_NoUnknownKindInLoop ==
    (pc = "dispatch" /\ bindings.isTable /\ Truthy(bindings.table[Edge[1]])) =>
        KindOf(bindings.table[Edge[1]]) \in KnownKinds

\* What the cycle has put out so far, as <<kind, event>> pairs.
Done(o) == [i \in 1..Len(o) |-> <<o[i].kind, o[i].event>>]

\* What handling edge i completely puts out, in order.
Handled(i) ==
    << <<"log", events[i][1]>>, <<"notify", events[i][1]>> >>
    \o (IF bindings.isTable /\ Truthy(bindings.table[events[i][1]])
        THEN << <<"dispatch", events[i][1]>> >> ELSE <<>>)

\* What the cycle must have put out when edges 1..n are handled.
HandledUpTo(n) ==
    LET H[i \in 0..n] == IF i = 0 THEN <<>> ELSE H[i-1] \o Handled(i)
    IN H[n]

InCycle == pc \in {"log", "notify", "dispatch", "set_prev"}

Count(kind, ev) == Cardinality({k \in 1..Len(out) : out[k].kind = kind /\ out[k].event = ev})

\* bindings.get(ev) yields a spec that "if spec:" accepts.
Bound(ev) == bindings.isTable /\ Truthy(bindings.table[ev])

\* C11: for every edge the loop handles, emit_to_nodered is called exactly
\* once (one attempt, no retry) and do_action at most once: once if the
\* event is bound, never if it is not, and the notification is sent anyway.
C11_OncePerEdge ==
    /\ \A i \in 1..Len(events) :
          LET ev == events[i][1]
          IN /\ Count("notify", ev) <= 1
             /\ Count("dispatch", ev) <= 1
             /\ Count("dispatch", ev) = 1 => (Count("notify", ev) = 1 /\ Bound(ev))
             /\ i < idx => /\ Count("notify", ev) = 1
                           /\ Count("dispatch", ev) = IF Bound(ev) THEN 1 ELSE 0
             /\ i > idx => (Count("notify", ev) = 0 /\ Count("dispatch", ev) = 0)
    /\ \A k \in 1..Len(out) :
          out[k].kind \in {"notify", "dispatch"} =>
             \E i \in 1..Len(events) : events[i][1] = out[k].event

\* A finished cycle of a bound edge (mute_on) and an unbound one (chan1_on).
C11_Witness ==
    /\ pc = "set_prev"
    /\ prev = 0
    /\ curr = 132
    /\ Bound("mute_on")
    /\ Count("notify", "mute_on") = 1
    /\ Count("dispatch", "mute_on") = 1
    /\ Count("notify", "chan1_on") = 1
    /\ Count("dispatch", "chan1_on") = 0

\* A poll iteration that brings nothing new: os.read raised BlockingIOError,
\* returned b'', or returned the byte already stored in prev.
NoNewInfoStep ==
    /\ pc = "read"
    /\ pc' \in {"read", "sleep"}
    /\ ~(prev = None /\ prev' # None)

\* C12: a poll iteration without new information leaves prev unchanged and
\* emits no edge, no notification and no action; decoding a mask against
\* itself yields the empty list.
C12_NoInfoNoEffect ==
    /\ [][NoNewInfoStep =>
             /\ prev' = prev
             /\ events' = events
             /\ idx' = idx
             /\ out' = out
             /\ posted' = posted
             /\ uiWrites' = uiWrites
             /\ child' = child]_vars
    /\ [](prev # None => decode_edges(prev, prev) = <<>>)
    /\ [](curr # None => decode_edges(curr, curr) = <<>>)

\* BlockingIOError right after the baseline byte 0x81.
C12_Witness ==
    /\ pc = "sleep"
    /\ lastRead = "blocked"
    /\ prev = 129
    /\ events = <<>>

\* C13: whenever a read finds no data (BlockingIOError or an empty result)
\* the loop runs time.sleep before it reads again: it is never about to
\* read with a no-data read behind it and no sleep in between.
C13_SleepAfterNoData ==
    pc = "read" => lastRead \notin {"blocked", "empty"}

\* C14: every edge the loop handles is delivered to each enabled sink on
\* its own: one payload to the HTTP sink if NR_ENABLED, one to the MQTT sink
\* if MQTT_ENABLED, whatever became of the other, and none if both are off.
C14_EachEnabledSink ==
    \A i \in 1..Len(events) :
        i < idx =>
            /\ Count("notify", events[i][1]) = IF sinks.nr THEN 1 ELSE 0
            /\ Count("mqtt", events[i][1]) = IF sinks.mqtt THEN 1 ELSE 0

\* C15: a failed notification never reaches the poll loop.  No exception
\* ever comes out of emit_to_nodered; the step that notifies, failed or not,
\* goes on to the dispatch of the same edge with prev and the cycle's edges
\* untouched; every edge handled after a failed notification had its bound
\* action dispatched; and the cycle ends with prev = curr all the same.
NotifyFailed(ev) ==
    \E k \in 1..Len(out) : out[k].kind = "notify" /\ out[k].event = ev /\ ~out[k].ok

C15_NotifyFailureContained ==
    /\ [](exc.at # "emit_to_nodered")
    /\ [][pc = "notify" /\ interrupted' = interrupted =>
             /\ pc' = "dispatch"
             /\ exc' = exc /\ prev' = prev /\ events' = events /\ idx' = idx]_vars
    /\ [](\A i \in 1..Len(events) :
             (NotifyFailed(events[i][1]) /\ i < idx) =>
                 Count("dispatch", events[i][1]) = IF Bound(events[i][1]) THEN 1 ELSE 0)
    /\ []((pc = "sleep" /\ \E i \in 1..Len(events) : NotifyFailed(events[i][1])) =>
             (idx = Len(events) + 1 /\ prev = curr /\ exc.type = "none"))

C15_Witness ==
    /\ pc = "sleep" /\ prev = 129 /\ curr = 129
    /\ NotifyFailed("mute_on")
    /\ Bound("mute_on") /\ Count("dispatch", "mute_on") = 1
    /\ Count("notify", "all_on") = 1
    /\ exc.type = "none"

\* C16: the lifecycle is Initializing -> Running -> ShuttingDown -> Stopped
\* (a fatal startup error goes from Initializing straight to Stopped).  An
\* interrupt at any point of the Running loop leads to Stopped with exit
\* code 0; from the interrupt on nothing is read, notified or dispatched;
\* and no step leaves Stopped.
Phase(p) ==
    IF p \in InitPcs THEN "Initializing"
    ELSE IF p \in LoopPcs THEN "Running"
    ELSE IF p = "finally" THEN "ShuttingDown"
    ELSE "Stopped"

PhaseOrder ==
    {<<"Initializing", "Running">>, <<"Running", "ShuttingDown">>,
     <<"ShuttingDown", "Stopped">>, <<"Initializing", "Stopped">>}

InterruptedRunning == interrupted /\ exc.at \notin InitPcs

C16_InterruptShutsDown ==
    /\ [][Phase(pc') = Phase(pc) \/ <<Phase(pc), Phase(pc')>> \in PhaseOrder]_vars
    /\ [][(Phase(pc) = "Running" /\ ~interrupted /\ interrupted') =>
             Phase(pc') = "ShuttingDown"]_vars
    /\ InterruptedRunning ~> (pc = "stopped" /\ exitCode = EXIT_OK)
    /\ []((InterruptedRunning /\ pc = "stopped") => exitCode = EXIT_OK)
    /\ [][InterruptedRunning =>
             /\ didRead' = didRead /\ lastRead' = lastRead
             /\ prev' = prev /\ curr' = curr /\ events' = events /\ idx' = idx
             /\ out' = out /\ posted' = posted /\ uiWrites' = uiWrites]_vars
    /\ [][pc # "stopped"]_vars

C16_Witness ==
    /\ pc = "stopped" /\ exitCode = EXIT_OK /\ interrupted
    /\ ui = "closed" /\ fd = "closed"
    /\ Len(events) = 2 /\ idx = 1
    /\ Count("notify", events[1][1]) = 1 /\ Count("dispatch", events[1][1]) = 0

\* C17: the dispatch of a key combo k1..kn has written press k1, ..., press
\* kn, release kn, ..., release k1 and one synchronize to the virtual input
\* device, and every key it pressed is released again (the virtual device
\* itself accepting the writes).
IsKeyCombo(spec) ==
    /\ Truthy(spec)
    /\ (IF spec.hasType THEN spec.type ELSE "key") = "key"
    /\ spec.hasKeys

ComboWrites(keys) ==
    [i \in 1..(2 * Len(keys) + 1) |->
        IF i <= Len(keys) THEN <<"EV_KEY", keys[i], 1>>
        ELSE IF i <= 2 * Len(keys) THEN <<"EV_KEY", keys[2 * Len(keys) + 1 - i], 0>>
        ELSE <<"EV_SYN", "SYN_REPORT", 0>>]

AllReleased(w) ==
    \A i \in 1..Len(w) :
        (w[i][1] = "EV_KEY" /\ w[i][3] = 1) =>
            \E j \in (i + 1)..Len(w) : w[j] = <<"EV_KEY", w[i][2], 0>>

C17_KeyComboSequence ==
    (/\ out # <<>>
     /\ out[Len(out)].kind = "dispatch"
     /\ bindings.isTable
     /\ IsKeyCombo(bindings.table[out[Len(out)].event])
     /\ exc.type # "OSError") =>
        /\ uiWrites = ComboWrites(bindings.table[out[Len(out)].event].keys)
        /\ AllReleased(uiWrites)

\* C18: a shell command is fire-and-forget.  The step that launches it
\* goes straight on to the next edge or to prev = curr with the child still
\* running; while a child runs, however long, the loop always has its next
\* step to take; and the end of a child, with whatever status, changes
\* neither where the loop is, nor prev, nor raises anything.
IsShell(spec) == Truthy(spec) /\ spec.hasType /\ spec.type = "shell" /\ spec.hasCmd

Launches ==
    /\ pc = "dispatch"
    /\ bindings.isTable
    /\ IsShell(bindings.table[Edge[1]])
    /\ Len(out') = Len(out) + 1
    /\ out'[Len(out')].ok

LoopStep ==
    \/ ReadBlocked \/ ReadEmpty \/ ReadBaseline \/ ReadSame \/ ReadChanged
    \/ LogEdge \/ Notify \/ Dispatch \/ SetPrev \/ Sleep

C18_ShellFireAndForget ==
    /\ [][Launches =>
             /\ child' = "running"
             /\ pc' = IF idx < Len(events) THEN "log" ELSE "set_prev"
             /\ prev' = prev /\ exc' = exc]_vars
    /\ []((child = "running" /\ pc \in LoopPcs) => ENABLED LoopStep)
    /\ [][child' # child /\ child = "running" /\ ~Launches =>
             /\ pc' = pc /\ prev' = prev /\ curr' = curr /\ exc' = exc
             /\ exitCode' = exitCode /\ events' = events /\ idx' = idx]_vars

C18_Witness ==
    /\ pc = "read" /\ child = "failed"
    /\ prev = 129 /\ curr = 129 /\ exc.type = "none"
    /\ bindings.isTable /\ IsShell(bindings.table["mute_on"])
    /\ Count("dispatch", "mute_on") = 1

\* C19: every payload notified in a cycle carries the byte just read:
\* mask_int is that byte, mask_hex its two lower-case hex digits, active the
\* names of exactly the bits set in it, in priority order; the k-th payload
\* is for the k-th edge of the cycle.
HexDigit(n) ==
    CASE n = 0 -> "0" [] n = 1 -> "1" [] n = 2 -> "2" [] n = 3 -> "3"
      [] n = 4 -> "4" [] n = 5 -> "5" [] n = 6 -> "6" [] n = 7 -> "7"
      [] n = 8 -> "8" [] n = 9 -> "9" [] n = 10 -> "a" [] n = 11 -> "b"
      [] n = 12 -> "c" [] n = 13 -> "d" [] n = 14 -> "e" [] n = 15 -> "f"

TwoHexDigits(b) == HexDigit(b \div 16) \o HexDigit(b % 16)

SetBitNames(b) == {BIT_NAMES[bit] : bit \in {x \in Bits : (b \div x) % 2 = 1}}

C19_PayloadFullMask ==
    /\ Len(posted) <= Len(events)
    /\ \A k \in 1..Len(posted) :
          LET p == posted[k]
          IN /\ p.event = events[k][1]
             /\ p.edge = events[k][3]
             /\ p.mask_int = curr
             /\ p.mask_hex = TwoHexDigits(curr)
             /\ {p.active[i] : i \in 1..Len(p.active)} = SetBitNames(curr)
             /\ \A i, j \in 1..Len(p.active) :
                   i < j => Rank(p.active[i]) < Rank(p.active[j])

\* The three payloads of the cycle 0x05 -> 0x80 all carry 0x80.
C19_Witness ==
    /\ prev = 5 /\ curr = 128
    /\ Len(posted) = 3
    /\ \A k \in 1..3 : posted[k].mask_int = 128 /\ posted[k].mask_hex = "80"
                        /\ posted[k].active = <<"mute">>
    /\ posted[1].event = "mute_on" /\ posted[2].event = "all_off"

\* C20: replay is the baseline (the first byte read) with the bit of every
\* edge logged since toggled.  Whenever a poll cycle is complete, replay is
\* prev, and prev is the last byte read.  Every edge logged is <flag>_on if
\* the flag's bit is clear in replay and <flag>_off if it is set: the first
\* edge of a flag is the opposite of its baseline value and each later one
\* the opposite of the one before, so the edges of a flag strictly alternate.
CycleComplete == pc \in {"read", "sleep"} /\ prev # None

====
